---- MODULE Spec2Model ----
(***************************************************************************)
(* The kernel loader of js-angusj-clipper (src/src/lib2/index.ts):         *)
(* loadNativeClipperLibInstanceAsync, its inner getModuleAsync and the two *)
(* module-level caches wasmModule and asmJsModule.                         *)
(*                                                                         *)
(* JavaScript runs every synchronous stretch of code to completion, so the *)
(* model has one action per stretch: the call of the async function up to  *)
(* its first await (or its return), the continuation after each await, and *)
(* each callback the native initializer invokes (preRun, quit, the         *)
(* setTimeout callback).  The native initializer itself is outside the     *)
(* repository; it is modelled as an environment that, during its           *)
(* synchronous run and afterwards, may call the hooks of the override      *)
(* table, return its module object, or throw.                              *)
(***************************************************************************)
EXTENDS Naturals, Integers, Sequences, FiniteSets, TLC

\* number of acquisition requests issued over the life of the process
NumReqs == 3

Reqs == 1..NumReqs

\* number of native initializations started over the life of the process
MaxInits == 2

\* number of requests suspended on an await at the same time
MaxInFlight == 2

\* enum NativeClipperLibRequestedFormat, plus a value outside the enumeration
WasmWithAsmJsFallback == "wasmWithAsmJsFallback"
WasmOnly == "wasmOnly"
AsmJsOnly == "asmJsOnly"
UnknownFormat == "unknownFormat"
RequestedFormats == {WasmWithAsmJsFallback, WasmOnly, AsmJsOnly, UnknownFormat}

\* enum NativeClipperLibLoadedFormat
Wasm == "wasm"
AsmJs == "asmJs"
LoadedFormats == {Wasm, AsmJs}

(***************************************************************************)
(* JavaScript values that reach the caches.  A module object is identified *)
(* by the native initialization that returned it; a thrown or rejected     *)
(* value by its kind and the initialization that produced it.              *)
(*   "Error"    an object for which `instanceof Error` is true             *)
(*   "nonError" any other value that is not undefined                      *)
(*   undefined  quit(code) called without an error, `throw undefined`      *)
(***************************************************************************)
Undefined == [tag |-> "undefined", init |-> 0]
Module(i) == [tag |-> "module", init |-> i]
ErrorObject(i) == [tag |-> "Error", init |-> i]
NonError(i) == [tag |-> "nonError", init |-> i]

\* the values an initialization i can deliver to quit(code, err) or throw
Thrown(i) == {ErrorObject(i), NonError(i), Undefined}

InstanceofError(v) == v.tag = "Error"
IsModule(v) == v.tag = "module"
\* a value that came out of a failed initialization and is not undefined
IsFailure(v) == v.tag \in {"Error", "nonError"}

VARIABLES
  wasmModule,   \* let wasmModule (index.ts:45)
  asmJsModule,  \* let asmJsModule (index.ts:46)
  pc,           \* per request: where the async function stands
  format,       \* per request: the `format` argument
  result,       \* per request: how the returned promise settled
  inits,        \* the native initializations started so far, in order
  overlapped    \* pairs of requests that were in flight at the same time

\* the loader: the two caches and the activations of the async function
loaderVars ==
  <<wasmModule, asmJsModule, pc, format, result, inits, overlapped>>

VARIABLES
  prefixArg,    \* per request: the arguments passed after `format`
  located       \* the last call of locateFile, with what it returned

locateVars == <<prefixArg, located>>

VARIABLES
  wrapper,      \* a ClipperLibWrapper object: its instance and format fields
  facadeCall,   \* the method of the wrapper being called, with its arguments
  native,       \* the calls of the underlying functions the method has made
  outcome       \* what the method returned or threw to its caller

facadeVars == <<wrapper, facadeCall, native, outcome>>

vars == <<loaderVars, locateVars, facadeVars>>


(***************************************************************************)
(* How the promise a request returned has settled.                         *)
(***************************************************************************)
Pending ==
  [kind |-> "pending", instance |-> Undefined, format |-> "", message |-> "",
   cause |-> Undefined]

ClipperLibWrapper_otherTag(instance, fmt) ==
  [kind |-> "wrapper", instance |-> instance,
   format |-> IF fmt = Wasm THEN AsmJs ELSE Wasm, message |-> "",
   cause |-> Undefined]

\* new ClipperLibWrapper(instance, format): the constructor stores both
ClipperLibWrapper(instance, fmt) ==
  [kind |-> "wrapper", instance |-> instance, format |-> fmt, message |-> "",
   cause |-> Undefined]

\* new ClipperError(message): an error that carries a message and nothing else
ClipperError(message) ==
  [kind |-> "error", instance |-> Undefined, format |-> "", message |-> message,
   cause |-> Undefined]

UnknownFormatMessage == "unknown native clipper format"
CouldNotLoadMessage == "could not load native clipper in the desired format"

\* the error of the switch's default case
UnknownFormatError == ClipperError(UnknownFormatMessage)

CouldNotLoad_carrying(err) ==
  [ClipperError(CouldNotLoadMessage) EXCEPT !.cause = err]

\* the error of the last line of the function; err is the value the last
\* catch block received or the cached Error that made the function skip a
\* format (Undefined if neither happened): the throw does not use it
CouldNotLoad(err) ==
  ClipperError(CouldNotLoadMessage)

(***************************************************************************)
(* The switch over the requested format.                                   *)
(***************************************************************************)
Recognized_any(f) ==
  TRUE

\* the three cases of the switch; every other value takes the default case
Recognized(f) ==
  f \in {WasmWithAsmJsFallback, WasmOnly, AsmJsOnly}

TryWasm_onlyWasmOnly(f) ==
  f = WasmOnly

TryWasm_always(f) ==
  TRUE

\* tryWasm as the switch sets it
TryWasm(f) ==
  f \in {WasmWithAsmJsFallback, WasmOnly}

TryAsmJs_onlyAsmJsOnly(f) ==
  f = AsmJsOnly

TryAsmJs_always(f) ==
  TRUE

\* tryAsmJs as the switch sets it
TryAsmJs(f) ==
  f \in {WasmWithAsmJsFallback, AsmJsOnly}

(***************************************************************************)
(* One native initialization: the promise getModuleAsync creates, the      *)
(* local finalModule, and what the native initializer has done so far.     *)
(*   phase   "running"  initModule(moduleOverrides) has not returned yet   *)
(*           "returned" it returned its module: finalModule is set         *)
(*           "threw"    it threw: the promise executor rejects             *)
(*   timer   a setTimeout callback of preRun is waiting to run             *)
(***************************************************************************)
NewInit(fmt, r) ==
  [fmt |-> fmt, by |-> r, phase |-> "running", promise |-> "pending",
   value |-> Undefined, timer |-> FALSE]

InitIds == 1..Len(inits)

\* the local variable finalModule of initialization i
finalModule(i) ==
  IF inits[i].phase = "returned" THEN Module(i) ELSE Undefined

Resolve_again(rec, v) ==
  [rec EXCEPT !.promise = "fulfilled", !.value = v]

\* resolve(v) and reject(e) of a promise: only the first call settles it
Resolve(rec, v) ==
  IF rec.promise = "pending"
    THEN [rec EXCEPT !.promise = "fulfilled", !.value = v]
    ELSE rec

Reject_never(rec, e) ==
  rec

Reject(rec, e) ==
  IF rec.promise = "pending"
    THEN [rec EXCEPT !.promise = "rejected", !.value = e]
    ELSE rec

\* some synchronous stretch (a call of initModule) is on the stack
Busy == \E i \in InitIds : inits[i].phase = "running"

\* the initialization request r is awaiting: the last one it started
CurInit(r) ==
  CHOOSE i \in InitIds :
    /\ inits[i].by = r
    /\ \A j \in InitIds : inits[j].by = r => j <= i

\* the await on initialization i has delivered the outcome of its promise:
\* the closure of getModuleAsync is out of reach of the program from here on,
\* and the record keeps only which format it was for and how it settled
Consumed(i) ==
  [inits EXCEPT ![i] =
     [NewInit(@.fmt, @.by) EXCEPT !.phase = "over", !.promise = inits[i].promise,
                                  !.value = inits[i].value]]

InFlight == {q \in Reqs : pc[q] \in {"awaitWasm", "awaitAsmJs"}}

Awaiting(fmt) == IF fmt = Wasm THEN "awaitWasm" ELSE "awaitAsmJs"

(***************************************************************************)
(* Pieces of loadNativeClipperLibInstanceAsync.                            *)
(***************************************************************************)
\* return res / throw res: the async function ends
Settle(r, res) ==
  /\ pc' = [pc EXCEPT ![r] = "done"]
  /\ result' = [result EXCEPT ![r] = res]

\* `await getModuleAsync(initModule)`: the promise is created, its executor
\* calls initModule, and the function suspends
GetModuleAsync(r, fmt, old) ==
  /\ Len(old) < MaxInits
  /\ Cardinality(InFlight \ {r}) < MaxInFlight
  /\ inits' = Append(old, NewInit(fmt, r))
  /\ pc' = [pc EXCEPT ![r] = Awaiting(fmt)]
  /\ UNCHANGED result

\* `if (tryAsmJs) {...}` and the final throw; err is what the wasm part left,
\* old the initializations as the wasm part left them
AsmJsPart(r, f, err, old) ==
  /\ UNCHANGED asmJsModule
  /\ IF TryAsmJs(f)
       THEN IF InstanceofError(asmJsModule)
              THEN Settle(r, CouldNotLoad(asmJsModule)) /\ inits' = old
            ELSE IF asmJsModule = Undefined
              THEN GetModuleAsync(r, AsmJs, old)
            ELSE Settle(r, ClipperLibWrapper(asmJsModule, AsmJs))
                 /\ inits' = old
       ELSE Settle(r, CouldNotLoad(err)) /\ inits' = old

\* `if (tryWasm) {...}` up to the await or the return, then the asm.js part
WasmPart(r, f) ==
  IF TryWasm(f)
    THEN IF InstanceofError(wasmModule)
           THEN AsmJsPart(r, f, wasmModule, inits) /\ UNCHANGED wasmModule
         ELSE IF wasmModule = Undefined
           THEN GetModuleAsync(r, Wasm, inits)
                /\ UNCHANGED <<wasmModule, asmJsModule>>
         ELSE /\ Settle(r, ClipperLibWrapper(wasmModule, Wasm))
              /\ UNCHANGED <<wasmModule, asmJsModule, inits>>
    ELSE AsmJsPart(r, f, Undefined, inits) /\ UNCHANGED wasmModule

(***************************************************************************)
(* Actions.                                                                *)
(***************************************************************************)
\* the module has been loaded and nothing has been called yet
LoaderInit ==
  /\ wasmModule = Undefined
  /\ asmJsModule = Undefined
  /\ pc = [r \in Reqs |-> "idle"]
  /\ format = [r \in Reqs |-> ""]
  /\ result = [r \in Reqs |-> Pending]
  /\ inits = <<>>
  /\ overlapped = {}

\* the parts of the program a specification leaves out stay as they are here
NoLocate ==
  /\ prefixArg = [r \in Reqs |-> <<>>]
  /\ located = <<>>

NoFacade ==
  /\ wrapper = Pending
  /\ facadeCall = <<>>
  /\ native = <<>>
  /\ outcome = <<>>

Init ==
  /\ LoaderInit
  /\ NoLocate
  /\ NoFacade

\* loadNativeClipperLibInstanceAsync(f) is called: the function runs to its
\* first await, its return or its throw.  Requests are numbered in the
\* order they are issued.
Call(r, f) ==
  /\ pc[r] = "idle"
  /\ \A q \in Reqs : q < r => pc[q] # "idle"
  /\ ~Busy
  /\ format' = [format EXCEPT ![r] = f]
  /\ overlapped' = overlapped \cup {{q, r} : q \in InFlight}
  /\ IF Recognized(f)
       THEN WasmPart(r, f)
       ELSE /\ Settle(r, UnknownFormatError)
            /\ UNCHANGED <<wasmModule, asmJsModule, inits>>

ResumeWasm_noStore(r) ==
  /\ pc[r] = "awaitWasm"
  /\ ~Busy
  /\ inits[CurInit(r)].promise # "pending"
  /\ UNCHANGED <<format, overlapped>>
  /\ LET p == inits[CurInit(r)] IN
     IF p.promise = "fulfilled"
       THEN /\ wasmModule' = p.value
            /\ Settle(r, ClipperLibWrapper(p.value, Wasm))
            /\ inits' = Consumed(CurInit(r))
            /\ UNCHANGED asmJsModule
       ELSE /\ wasmModule' = wasmModule
            /\ AsmJsPart(r, format[r], p.value, Consumed(CurInit(r)))

\* the continuation after `wasmModule = await getModuleAsync(initModule)`
ResumeWasm(r) ==
  /\ pc[r] = "awaitWasm"
  /\ ~Busy
  /\ inits[CurInit(r)].promise # "pending"
  /\ UNCHANGED <<format, overlapped>>
  /\ LET p == inits[CurInit(r)] IN
     /\ wasmModule' = p.value
     /\ IF p.promise = "fulfilled"
          THEN /\ Settle(r, ClipperLibWrapper(p.value, Wasm))
               /\ inits' = Consumed(CurInit(r))
               /\ UNCHANGED asmJsModule
          ELSE AsmJsPart(r, format[r], p.value, Consumed(CurInit(r)))

\* the continuation after `asmJsModule = await getModuleAsync(initModule)`
ResumeAsmJs(r) ==
  /\ pc[r] = "awaitAsmJs"
  /\ ~Busy
  /\ inits[CurInit(r)].promise # "pending"
  /\ UNCHANGED <<format, overlapped, wasmModule>>
  /\ inits' = Consumed(CurInit(r))
  /\ LET p == inits[CurInit(r)] IN
     /\ asmJsModule' = p.value
     /\ IF p.promise = "fulfilled"
          THEN Settle(r, ClipperLibWrapper(p.value, AsmJs))
          ELSE Settle(r, CouldNotLoad(p.value))

\* the function that started initialization i is still suspended on it
Awaited(i) ==
  /\ pc[inits[i].by] = Awaiting(inits[i].fmt)
  /\ CurInit(inits[i].by) = i

\* a callback of initialization i may run: either initModule is on the stack
\* and calls it, or nothing is on the stack.  The native runtime may call a
\* hook any number of times.  Once the awaiting function has resumed nothing
\* reads the promise or finalModule any more, so a later callback changes no
\* state of the program and is left out.
MayCallBack(i) ==
  /\ Awaited(i)
  /\ inits[i].phase \in {"running", "returned"}
  /\ inits[i].phase = "running" \/ ~Busy

\* `finalModule = initModule(moduleOverrides)`: the initializer returns
InitReturn(i) ==
  /\ inits[i].phase = "running"
  /\ inits' = [inits EXCEPT ![i].phase = "returned"]
  /\ UNCHANGED <<wasmModule, asmJsModule, pc, format, result, overlapped>>

\* initModule throws e inside the promise executor, which rejects with e
\* (the require of the bundled loader script is taken to succeed)
InitThrow(i, e) ==
  /\ inits[i].phase = "running"
  /\ inits' = [inits EXCEPT ![i] = Reject([@ EXCEPT !.phase = "threw"], e)]
  /\ UNCHANGED <<wasmModule, asmJsModule, pc, format, result, overlapped>>

PreRun_atOnce(i) ==
  /\ MayCallBack(i)
  /\ inits' = [inits EXCEPT ![i] = Resolve(@, finalModule(i))]
  /\ UNCHANGED <<wasmModule, asmJsModule, pc, format, result, overlapped>>

\* moduleOverrides.preRun()
PreRun(i) ==
  /\ MayCallBack(i)
  /\ inits' = [inits EXCEPT ![i] =
       IF finalModule(i) # Undefined
         THEN Resolve(@, finalModule(i))
         ELSE [@ EXCEPT !.timer = TRUE]]
  /\ UNCHANGED <<wasmModule, asmJsModule, pc, format, result, overlapped>>

\* the setTimeout callback of preRun: resolve(finalModule)
Timeout(i) ==
  /\ Awaited(i)
  /\ inits[i].timer
  /\ ~Busy
  /\ inits' = [inits EXCEPT ![i] =
       Resolve([@ EXCEPT !.timer = FALSE], finalModule(i))]
  /\ UNCHANGED <<wasmModule, asmJsModule, pc, format, result, overlapped>>

\* moduleOverrides.quit(code, e)
Quit(i, e) ==
  /\ MayCallBack(i)
  /\ inits' = [inits EXCEPT ![i] = Reject(@, e)]
  /\ UNCHANGED <<wasmModule, asmJsModule, pc, format, result, overlapped>>

\* a step of the loader leaves the rest of the program as it is
LoaderOnly == UNCHANGED <<locateVars, facadeVars>>

Next ==
  \/ \E r \in Reqs, f \in RequestedFormats : Call(r, f) /\ LoaderOnly
  \/ \E r \in Reqs : ResumeWasm(r) /\ LoaderOnly
  \/ \E r \in Reqs : ResumeAsmJs(r) /\ LoaderOnly
  \/ \E i \in InitIds : InitReturn(i) /\ LoaderOnly
  \/ \E i \in InitIds : \E e \in Thrown(i) : InitThrow(i, e) /\ LoaderOnly
  \/ \E i \in InitIds : PreRun(i) /\ LoaderOnly
  \/ \E i \in InitIds : Timeout(i) /\ LoaderOnly
  \/ \E i \in InitIds : \E e \in Thrown(i) : Quit(i, e) /\ LoaderOnly

Spec == Init /\ [][Next]_vars

(***************************************************************************)
(* The loader under the scheduling the JavaScript run time guarantees, for *)
(* the properties that say something eventually happens.                   *)
(***************************************************************************)
\* number of acquisition requests issued under LiveSpec
MaxLiveReqs == 2

\* the requests that may still have to invoke one more native initializer
\* when they resume: the fallback requests suspended on Wasm
Reserved ==
  Cardinality({q \in Reqs :
                 pc[q] = "awaitWasm" /\ format[q] = WasmWithAsmJsFallback})

\* a request is issued only while the initializations it and the suspended
\* requests may still need fit under MaxInits, so that no continuation is
\* held back by the bound
LiveCall(r, f) ==
  /\ r <= MaxLiveReqs
  /\ Call(r, f)
  /\ Len(inits') + Reserved' <= MaxInits

LiveNext ==
  \/ \E r \in Reqs, f \in RequestedFormats : LiveCall(r, f) /\ LoaderOnly
  \/ \E r \in Reqs : ResumeWasm(r) /\ LoaderOnly
  \/ \E r \in Reqs : ResumeAsmJs(r) /\ LoaderOnly
  \/ \E i \in InitIds : InitReturn(i) /\ LoaderOnly
  \/ \E i \in InitIds : \E e \in Thrown(i) : InitThrow(i, e) /\ LoaderOnly
  \/ \E i \in InitIds : PreRun(i) /\ LoaderOnly
  \/ \E i \in InitIds : Timeout(i) /\ LoaderOnly
  \/ \E i \in InitIds : \E e \in Thrown(i) : Quit(i, e) /\ LoaderOnly

\* initModule(moduleOverrides) is a synchronous call: it returns or throws
InitEnds(i) ==
  /\ i \in InitIds
  /\ InitReturn(i) \/ \E e \in Thrown(i) : InitThrow(i, e)
  /\ LoaderOnly

\* the event loop runs every continuation of a settled promise and every
\* timer callback, and a synchronous call comes to its end
Scheduling ==
  /\ \A r \in Reqs : WF_vars(ResumeWasm(r) /\ LoaderOnly)
  /\ \A r \in Reqs : WF_vars(ResumeAsmJs(r) /\ LoaderOnly)
  /\ \A i \in 1..MaxInits : WF_vars(i \in InitIds /\ Timeout(i) /\ LoaderOnly)
  /\ \A i \in 1..MaxInits : WF_vars(InitEnds(i))

\* initialization i has thrown, has invoked preRun (which resolved the
\* promise or left a timer) or has invoked quit (which rejected it)
Signalled(i) ==
  /\ i \in InitIds
  /\ \/ inits[i].phase = "threw"
     \/ inits[i].timer
     \/ inits[i].promise # "pending"


\* the native runtime's part: an initialization that has neither thrown
\* nor signalled yet goes on to invoke its pre-run hook or its quit hook
Signals(i) ==
  /\ ~Signalled(i)
  /\ i \in InitIds
  /\ PreRun(i) \/ \E e \in Thrown(i) : Quit(i, e)
  /\ LoaderOnly

EnvSignals == \A i \in 1..MaxInits : WF_vars(Signals(i))

LiveSpec == Init /\ [][LiveNext]_vars /\ Scheduling /\ EnvSignals

(***************************************************************************)
(* Resource resolution: the second parameter of the loader and the         *)
(* locateFile entry of the override table.  Strings are strings.           *)
(***************************************************************************)
\* number of acquisition requests issued under LocateSpec
MaxLocateReqs == 1

\* prefixes a caller passes, and file names the native loader asks for
Prefixes == {"", "res/"}
Files == {"clipper-wasm.wasm", "clipper.js.mem"}

\* what a caller passes after `format`: nothing, or a prefix
PrefixArgs == {<<>>} \cup {<<p>> : p \in Prefixes}

resourceFilePrefixUrl_noDefault(r) ==
  IF prefixArg[r] = <<>> THEN "undefined" ELSE prefixArg[r][1]

\* the parameter `resourceFilePrefixUrl: string = ''` of request r
resourceFilePrefixUrl(r) ==
  IF prefixArg[r] = <<>> THEN "" ELSE prefixArg[r][1]

locateFile_fileOnly(r, file) ==
  file

\* locateFile(file) of the override table request r built
locateFile(r, file) ==
  resourceFilePrefixUrl(r) \o file

\* loadNativeClipperLibInstanceAsync(f, ...args) is called
LocateCall(r, f, args) ==
  /\ r <= MaxLocateReqs
  /\ Call(r, f)
  /\ prefixArg' = [prefixArg EXCEPT ![r] = args]
  /\ UNCHANGED <<located, facadeVars>>

\* the native loader calls moduleOverrides.locateFile(file)
LocateFile(i, file) ==
  /\ MayCallBack(i)
  /\ located' = <<[init |-> i, file |-> file,
                   location |-> locateFile(inits[i].by, file)]>>
  /\ UNCHANGED <<loaderVars, prefixArg, facadeVars>>

LocateNext ==
  \/ \E r \in Reqs, f \in RequestedFormats, args \in PrefixArgs :
       LocateCall(r, f, args)
  \/ \E i \in InitIds, file \in Files : LocateFile(i, file)
  \/ \E r \in Reqs : ResumeWasm(r) /\ LoaderOnly
  \/ \E r \in Reqs : ResumeAsmJs(r) /\ LoaderOnly
  \/ \E i \in InitIds : InitReturn(i) /\ LoaderOnly
  \/ \E i \in InitIds : \E e \in Thrown(i) : InitThrow(i, e) /\ LoaderOnly
  \/ \E i \in InitIds : PreRun(i) /\ LoaderOnly
  \/ \E i \in InitIds : Timeout(i) /\ LoaderOnly
  \/ \E i \in InitIds : \E e \in Thrown(i) : Quit(i, e) /\ LoaderOnly

LocateSpec == Init /\ [][LocateNext]_vars

(***************************************************************************)
(* The facade: the methods of ClipperLibWrapper that call a function of    *)
(* the native kernel.  Each is one synchronous call: the method calls the  *)
(* imported function of the same name with this.instance and its own       *)
(* arguments, and returns what that call returns.  The imported functions  *)
(* are outside this file: a call of one is an environment step that        *)
(* returns a value or throws.                                              *)
(***************************************************************************)
\* distances are counted in units of 1/10000, the precision of the literal
DistanceUnit == 10000

\* `distance = 1.1415` of cleanPolygon and cleanPolygons
DefaultDistance == 11415

\* `fillType: PolyFillType = PolyFillType.EvenOdd` of simplifyPolygon(s)
DefaultFillType == "EvenOdd"

ClipOps == {"clipToPaths", "clipToPolyTree"}
OffsetOps == {"offsetToPaths", "offsetToPolyTree"}
CleanOps == {"cleanPolygon", "cleanPolygons"}
SimplifyOps == {"simplifyPolygon", "simplifyPolygons"}
MinkowskiSumOps == {"minkowskiSumPath", "minkowskiSumPaths"}

\* the methods that pass this.instance on
FacadeOps ==
  ClipOps \cup OffsetOps \cup CleanOps \cup SimplifyOps \cup MinkowskiSumOps
  \cup {"minkowskiDiff"}

\* argument lists a caller passes to a method; an optional parameter that is
\* left out makes the list shorter
CallerArgs(op) ==
  IF op \in ClipOps \cup OffsetOps THEN {<<"dataA">>, <<"dataB">>}
  ELSE IF op \in CleanOps
    THEN {<<"pathA">>, <<"pathA", 0>>, <<"pathA", 2 * DistanceUnit>>}
  ELSE IF op \in SimplifyOps
    THEN {<<"pathA">>, <<"pathA", "EvenOdd">>, <<"pathA", "NonZero">>}
  ELSE IF op \in MinkowskiSumOps
    THEN {<<"pathA", "pathB", c>> : c \in BOOLEAN}
  ELSE {<<"pathA", "pathB">>}

\* the parameters of the method after the defaults have been filled in
WithDefaults(op, args) ==
  IF op \in CleanOps /\ Len(args) = 1 THEN Append(args, DefaultDistance)
  ELSE IF op \in SimplifyOps /\ Len(args) = 1
    THEN Append(args, DefaultFillType)
  ELSE args

\* how a call of an imported function ends
NativeOutcomes ==
  {[kind |-> "returned", value |-> "result"],
   [kind |-> "returned", value |-> "undefined"],
   [kind |-> "threw", value |-> "error"]}

Propagate_swallow(out) ==
  IF out.kind = "threw"
    THEN [kind |-> "returned", value |-> "undefined"]
    ELSE out

\* `return f(this.instance, ...)`: the value is returned as it is, and an
\* exception passes through the method, which has no try block
Propagate(out) ==
  out

\* a wrapper has been constructed around a module
FacadeInit ==
  /\ LoaderInit
  /\ NoLocate
  /\ wrapper \in {ClipperLibWrapper(Module(i), fmt) :
                    i \in 1..MaxInits, fmt \in LoadedFormats}
  /\ facadeCall = <<>>
  /\ native = <<>>
  /\ outcome = <<>>

\* wrapper.op(...args) is called: the method calls the imported function
Invoke(op, args) ==
  /\ facadeCall = <<>> \/ outcome # <<>>
  /\ facadeCall' = <<[op |-> op, args |-> args]>>
  /\ native' = <<[fn |-> op, instance |-> wrapper.instance,
                  args |-> WithDefaults(op, args), out |-> <<>>]>>
  /\ outcome' = <<>>
  /\ UNCHANGED <<wrapper, loaderVars, locateVars>>

\* the imported function returns or throws, and so does the method
NativeEnds(out) ==
  /\ facadeCall # <<>>
  /\ outcome = <<>>
  /\ native' = [native EXCEPT ![Len(native)].out = <<out>>]
  /\ outcome' = <<Propagate(out)>>
  /\ UNCHANGED <<wrapper, facadeCall, loaderVars, locateVars>>

FacadeNext ==
  \/ \E op \in FacadeOps : \E args \in CallerArgs(op) : Invoke(op, args)
  \/ \E out \in NativeOutcomes : NativeEnds(out)

FacadeSpec == FacadeInit /\ [][FacadeNext]_vars

(***************************************************************************)
(* Vocabulary of the properties.                                           *)
(***************************************************************************)
\* the cache variable of a format
Cached(fmt) == IF fmt = Wasm THEN wasmModule ELSE asmJsModule

\* how many times the native initializer of a format has been invoked
NumInits(fmt) == Cardinality({i \in InitIds : inits[i].fmt = fmt})

\* the format is Loading: some request is suspended on an initialization of it
Loading(fmt) == \E i \in InitIds : inits[i].fmt = fmt /\ Awaited(i)

\* the initializations of a format that request r started
OwnInits(r, fmt) == {i \in InitIds : inits[i].by = r /\ inits[i].fmt = fmt}

\* in this step request r invokes the native initializer of a format
StartsInit(r, fmt) ==
  /\ Len(inits') = Len(inits) + 1
  /\ inits'[Len(inits')].by = r
  /\ inits'[Len(inits')].fmt = fmt

\* in this step request r is issued
Starts(r) == pc[r] = "idle" /\ pc'[r] # "idle"

\* in this step request r resolves or rejects
Finishes(r) == pc[r] # "done" /\ pc'[r] = "done"

\* in this step request r resumes from its await on a format
ResumesFrom(r, fmt) == pc[r] = Awaiting(fmt) /\ pc'[r] # pc[r]

\* the format a requested format tries first
TriedFirst(f) == IF f = AsmJsOnly THEN AsmJs ELSE Wasm

\* the formats that apply to a requested format
Applicable(f) ==
  IF f = WasmOnly THEN {Wasm}
  ELSE IF f = AsmJsOnly THEN {AsmJs}
  ELSE {Wasm, AsmJs}

\* the requested format that tries one format only, and the other format
Only(fmt) == IF fmt = Wasm THEN WasmOnly ELSE AsmJsOnly

Other(fmt) == IF fmt = Wasm THEN AsmJs ELSE Wasm

\* the value came out of a native initialization of the format: the module
\* its initializer returned, or what it threw or passed to quit
ProducedBy(v, fmt) == v.init \in InitIds /\ inits[v.init].fmt = fmt

\* request r has started no native initialization: whatever it returned or
\* threw, it took from the caches
FromCache(r) == \A i \in InitIds : inits[i].by # r

\* request r has got a wrapper of a module of the format
Loaded(r, fmt) ==
  /\ result[r].kind = "wrapper"
  /\ result[r].format = fmt
  /\ IsModule(result[r].instance)

\* some initialization of the format has failed with an error (a value that
\* is not undefined) and a catch block has received it
FailedOnce(fmt) ==
  \E i \in InitIds :
    /\ inits[i].fmt = fmt
    /\ inits[i].phase = "over"
    /\ inits[i].promise = "rejected"
    /\ IsFailure(inits[i].value)

\* the promise of initialization i was rejected by the quit hook: the
\* initializer returned, so the rejection is not that of a throw
RejectedByQuit(i) ==
  inits[i].phase = "returned" /\ inits[i].promise = "rejected"

\* the pre-run hook of initialization i has fired and no quit has taken
\* effect: it resolved the promise, or it left a timer that will
PreRunFired(i) ==
  \/ inits[i].promise = "fulfilled"
  \/ inits[i].timer /\ inits[i].promise = "pending"

\* a format ended in Failed for request r, evaluated in the state before the
\* step in which r finishes: r attempted the format and the attempt failed,
\* or r made no attempt because it found a cached failure
FailedFor(r, fmt) ==
  \/ \E i \in OwnInits(r, fmt) : inits[i].promise = "rejected"
  \/ /\ OwnInits(r, fmt) = {}
     /\ \/ IsFailure(Cached(fmt))
        \* suspended on AsmJs without a Wasm attempt: Wasm was skipped
        \/ fmt = Wasm /\ pc[r] = "awaitAsmJs"

(***************************************************************************)
(* C1.  While a format is Loading, a request that starts does not invoke   *)
(* the native initializer of that format again.                            *)
(***************************************************************************)
C1_NoSecondInitWhileLoading ==
  [][\A fmt \in LoadedFormats :
       Loading(fmt) => NumInits(fmt)' = NumInits(fmt)]_vars

(***************************************************************************)
(* C2.  Any two requests that got a wrapper of a loaded module of the same  *)
(* format got the same module instance, and of two overlapping requests    *)
(* for the same format it never happens that one gets a wrapper of a       *)
(* loaded module and the other fails.                                      *)
(***************************************************************************)
C2_OneInstancePerFormat ==
  /\ \A r1, r2 \in Reqs, fmt \in LoadedFormats :
       (Loaded(r1, fmt) /\ Loaded(r2, fmt))
       => result[r1].instance = result[r2].instance
  /\ \A r1, r2 \in Reqs, fmt \in LoadedFormats :
       (/\ {r1, r2} \in overlapped
        /\ format[r1] = format[r2]
        /\ Loaded(r1, fmt))
       => result[r2].kind # "error"

(***************************************************************************)
(* C3.  Once the cache of a format holds a loaded module, no step replaces *)
(* it by a failure value.                                                  *)
(***************************************************************************)
C3_GoodHandleNotOverwritten ==
  [][\A fmt \in LoadedFormats :
       IsModule(Cached(fmt)) => ~IsFailure(Cached(fmt)')]_vars

(***************************************************************************)
(* C4.  Loaded is terminal: once some request has loaded a format, a       *)
(* request issued afterwards that tries this format first gets, in the     *)
(* step that issues it, a wrapper of a module some request loaded before,  *)
(* and invokes no native initializer.                                      *)
(***************************************************************************)
C4_LoadedIsTerminal ==
  [][\A r \in Reqs :
       (/\ Starts(r)
        /\ Recognized(format'[r])
        /\ \E q \in Reqs : Loaded(q, TriedFirst(format'[r])))
       => /\ Finishes(r)
          /\ \E q \in Reqs :
               /\ Loaded(q, TriedFirst(format'[r]))
               /\ result'[r] = result[q]
          /\ inits' = inits]_vars

(***************************************************************************)
(* C5.  Failed is terminal: once an initialization of a format has failed  *)
(* with an error, the cache of the format holds a failure from then on,    *)
(* and the native initializer of the format is not invoked again.          *)
(***************************************************************************)
C5_FailedIsTerminal ==
  [][\A fmt \in LoadedFormats :
       /\ FailedOnce(fmt)' => IsFailure(Cached(fmt)')
       /\ FailedOnce(fmt) => NumInits(fmt)' = NumInits(fmt)]_vars

(***************************************************************************)
(* C6.  Fallback ordering: a WasmWithAsmJsFallback request invokes the     *)
(* AsmJs initializer only in a step in which it has found Wasm failed:     *)
(* either it is being issued and the Wasm cache holds a failure, or it     *)
(* resumes from its own Wasm initialization, which was rejected.  It never *)
(* does so while suspended on Wasm with the promise pending or fulfilled,  *)
(* and after the step the Wasm cache holds no module.                      *)
(***************************************************************************)
C6_FallbackOrdering ==
  [][\A r \in Reqs :
       (format'[r] = WasmWithAsmJsFallback /\ StartsInit(r, AsmJs))
       => /\ \/ Starts(r) /\ IsFailure(wasmModule)
             \/ /\ ResumesFrom(r, Wasm)
                /\ inits[CurInit(r)].fmt = Wasm
                /\ inits[CurInit(r)].promise = "rejected"
          /\ ~IsModule(wasmModule')]_vars

\* a fallback request whose own Wasm initialization failed has invoked the
\* AsmJs initializer
C6_Witness ==
  \E r \in Reqs :
    /\ format[r] = WasmWithAsmJsFallback
    /\ \E i \in OwnInits(r, Wasm) : inits[i].promise = "rejected"
    /\ OwnInits(r, AsmJs) # {}

(***************************************************************************)
(* C7.  Fallback success: when a WasmWithAsmJsFallback request resumes     *)
(* from a rejected Wasm initialization, the rejection value is stored in   *)
(* wasmModule and the request goes on to AsmJs: it awaits a new AsmJs      *)
(* initialization if asmJsModule is undefined and resolves with an AsmJs   *)
(* wrapper of the cached module if asmJsModule holds one.  When it resumes *)
(* from a fulfilled AsmJs initialization it resolves with a wrapper of     *)
(* format AsmJs around the module of that initialization.                  *)
(***************************************************************************)
C7_FallbackSuccess ==
  [][\A r \in Reqs :
       format[r] = WasmWithAsmJsFallback
       => /\ (ResumesFrom(r, Wasm) /\ inits[CurInit(r)].promise = "rejected")
             => /\ wasmModule' = inits[CurInit(r)].value
                /\ asmJsModule = Undefined
                   => pc'[r] = "awaitAsmJs" /\ StartsInit(r, AsmJs)
                /\ IsModule(asmJsModule)
                   => result'[r] = ClipperLibWrapper(asmJsModule, AsmJs)
          /\ (ResumesFrom(r, AsmJs) /\ inits[CurInit(r)].promise = "fulfilled")
             => result'[r] = ClipperLibWrapper(Module(CurInit(r)), AsmJs)]_vars

\* a fallback request whose Wasm initialization failed has resolved with a
\* wrapper of format AsmJs
C7_Witness ==
  \E r \in Reqs :
    /\ format[r] = WasmWithAsmJsFallback
    /\ \E i \in OwnInits(r, Wasm) : inits[i].promise = "rejected"
    /\ Loaded(r, AsmJs)

(***************************************************************************)
(* C8.  A request with a recognized format fails with the generic error    *)
(* if and only if every applicable format ended in Failed for it: it       *)
(* attempted the format and the attempt failed, or it made no attempt      *)
(* because it found a cached failure.  Otherwise it gets a wrapper.        *)
(***************************************************************************)
C8_FailsIffAllFailed ==
  [][\A r \in Reqs :
       (Finishes(r) /\ format'[r] \in {WasmWithAsmJsFallback, WasmOnly, AsmJsOnly})
       => /\ result'[r] = ClipperError(CouldNotLoadMessage)
             <=> \A fmt \in Applicable(format'[r]) : FailedFor(r, fmt)
          /\ result'[r].kind \in {"wrapper", "error"}]_vars

(***************************************************************************)
(* C9.  As claimed: when a request fails after an initialization of its    *)
(* own was rejected by the quit hook with an error, the error the caller   *)
(* receives is or carries that error.                                      *)
(***************************************************************************)
C9_CarriesCause ==
  [][\A r \in Reqs, fmt \in LoadedFormats :
       (/\ ResumesFrom(r, fmt)
        /\ Finishes(r)
        /\ RejectedByQuit(CurInit(r))
        /\ IsFailure(inits[CurInit(r)].value))
       => result'[r].cause = inits[CurInit(r)].value]_vars

(***************************************************************************)
(* C9, amended.  A request with a recognized format that fails always      *)
(* receives the generic ClipperError, which carries no cause, also when    *)
(* the initialization of its format failed with an error or the cache held *)
(* one.                                                                    *)
(***************************************************************************)
C9_GenericErrorOnly ==
  \A r \in Reqs :
    (result[r].kind = "error"
       /\ format[r] \in {WasmWithAsmJsFallback, WasmOnly, AsmJsOnly})
    => /\ result[r].message = CouldNotLoadMessage
       /\ result[r].cause = Undefined

\* a request has failed after its own initialization was rejected with an
\* Error object, which the cache of the format now holds
C9_Witness ==
  \E r \in Reqs, fmt \in LoadedFormats :
    /\ result[r].kind = "error"
    /\ \E i \in OwnInits(r, fmt) :
         /\ inits[i].promise = "rejected"
         /\ inits[i].value = ErrorObject(i)
         /\ Cached(fmt) = ErrorObject(i)

(***************************************************************************)
(* C10.  A request with an unrecognized format fails in the step that      *)
(* issues it with the 'unknown native clipper format' error; the step      *)
(* invokes no native initializer and leaves both caches as they are.       *)
(***************************************************************************)
C10_UnknownFormatFailsFirst ==
  [][\A r \in Reqs :
       (Starts(r) /\ format'[r] = UnknownFormat)
       => /\ Finishes(r)
          /\ result'[r] = ClipperError(UnknownFormatMessage)
          /\ inits' = inits
          /\ wasmModule' = wasmModule
          /\ asmJsModule' = asmJsModule]_vars

\* a request with an unrecognized format has failed while one cache holds a
\* module and one format is still loading
C10_Witness ==
  \E r \in Reqs :
    /\ format[r] = UnknownFormat
    /\ result[r] = UnknownFormatError
    /\ \E fmt \in LoadedFormats : Cached(fmt) # Undefined
    /\ \E fmt \in LoadedFormats : Loading(fmt)

(***************************************************************************)
(* C11.  The requested format alone decides which formats are attempted:   *)
(* a WasmOnly request never invokes the AsmJs initializer, never awaits it *)
(* and never gets a wrapper of format AsmJs; an AsmJsOnly request never    *)
(* invokes the Wasm initializer, never awaits it and never gets a wrapper  *)
(* of format Wasm.                                                         *)
(***************************************************************************)
C11_ModeDecidesFormats ==
  \A r \in Reqs, fmt \in LoadedFormats :
    format[r] = Only(fmt)
    => /\ OwnInits(r, Other(fmt)) = {}
       /\ pc[r] # Awaiting(Other(fmt))
       /\ result[r].format # Other(fmt)

\* a WasmOnly request has failed although the AsmJs cache holds a module
C11_Witness ==
  \E r \in Reqs :
    /\ format[r] = WasmOnly
    /\ result[r] = ClipperError(CouldNotLoadMessage)
    /\ IsModule(asmJsModule)

(***************************************************************************)
(* C12.  The caches of the two formats are independent: every step of a    *)
(* single-format request leaves the cache of the other format as it is,    *)
(* and what the step does is decided by the cache of its own format (when  *)
(* the request is issued) or by the outcome of its own initialization      *)
(* (when it resumes), whatever the other format's cache holds.             *)
(***************************************************************************)
C12_FormatsIndependent ==
  [][\A r \in Reqs, fmt \in LoadedFormats :
       (pc'[r] # pc[r] /\ format'[r] = Only(fmt))
       => /\ Cached(Other(fmt))' = Cached(Other(fmt))
          /\ Starts(r)
             => IF InstanceofError(Cached(fmt))
                  THEN /\ result'[r] = ClipperError(CouldNotLoadMessage)
                       /\ inits' = inits
                ELSE IF Cached(fmt) = Undefined
                  THEN pc'[r] = Awaiting(fmt) /\ StartsInit(r, fmt)
                ELSE /\ result'[r] = ClipperLibWrapper(Cached(fmt), fmt)
                     /\ inits' = inits
          /\ ResumesFrom(r, fmt)
             => /\ Cached(fmt)' = inits[CurInit(r)].value
                /\ Len(inits') = Len(inits)
                /\ result'[r] =
                     IF inits[CurInit(r)].promise = "fulfilled"
                       THEN ClipperLibWrapper(inits[CurInit(r)].value, fmt)
                       ELSE ClipperError(CouldNotLoadMessage)]_vars

\* a WasmOnly request has got its wrapper and an AsmJsOnly request has
\* failed: one cache holds a module while the other holds a failure
C12_Witness ==
  \E r1, r2 \in Reqs :
    /\ format[r1] = WasmOnly
    /\ Loaded(r1, Wasm)
    /\ IsModule(wasmModule)
    /\ format[r2] = AsmJsOnly
    /\ result[r2] = ClipperError(CouldNotLoadMessage)
    /\ IsFailure(asmJsModule)

(***************************************************************************)
(* C13.  Every acquisition request runs to success or failure: under       *)
(* LiveSpec, where every native initialization that is started returns or  *)
(* throws and, unless it throws, invokes its pre-run hook or its quit      *)
(* hook, every request that is issued eventually resolves with a wrapper   *)
(* or rejects with an error.                                               *)
(***************************************************************************)
C13_RunsToCompletion ==
  \A r \in Reqs :
    (pc[r] # "idle")
    ~> (pc[r] = "done" /\ result[r].kind \in {"wrapper", "error"})

\* a fallback request has rejected after it awaited two initializations
C13_Witness ==
  \E r \in Reqs :
    /\ format[r] = WasmWithAsmJsFallback
    /\ pc[r] = "done"
    /\ OwnInits(r, Wasm) # {}
    /\ OwnInits(r, AsmJs) # {}
    /\ result[r].kind = "error"

(***************************************************************************)
(* C14.  When the caller of cleanPolygon or cleanPolygons passes no        *)
(* distance, the distance the kernel receives is large enough for two      *)
(* vertices whose X and Y each differ by at most 1 unit: its square is at  *)
(* least the squared distance of any such pair, that is, at least 2.       *)
(***************************************************************************)
C14_DefaultCoversUnitNeighbours ==
  \A k \in 1..Len(native) :
    (native[k].fn \in CleanOps /\ Len(facadeCall[1].args) = 1)
    => \A dx, dy \in -1..1 :
         (dx * dx + dy * dy) * DistanceUnit * DistanceUnit
           <= native[k].args[2] * native[k].args[2]

C16_DelegatesOnce ==
  facadeCall # <<>>
  => /\ Len(native) = 1
     /\ native[1].fn = facadeCall[1].op
     /\ native[1].instance = wrapper.instance
     /\ Len(native[1].args) >= Len(facadeCall[1].args)
     /\ \A k \in 1..Len(facadeCall[1].args) :
          native[1].args[k] = facadeCall[1].args[k]
     /\ outcome # <<>> => outcome = native[1].out

\* a clipping call has thrown to its caller what the kernel threw
C16_Witness ==
  /\ facadeCall # <<>>
  /\ facadeCall[1].op = "clipToPaths"
  /\ outcome = <<[kind |-> "threw", value |-> "error"]>>
  /\ native[1].out = outcome

(***************************************************************************)
(* C17.  Every wrapper a request has got wraps the module object of a      *)
(* native initialization whose promise was fulfilled, for every value a    *)
(* quit hook or a throw can deliver: never a stored failure value.         *)
(***************************************************************************)
C17_WrapsLoadedModule ==
  \A r \in Reqs :
    result[r].kind = "wrapper"
    => /\ IsModule(result[r].instance)
       /\ ~IsFailure(result[r].instance)
       /\ \E i \in InitIds :
            /\ result[r].instance = Module(i)
            /\ inits[i].promise = "fulfilled"

(***************************************************************************)
(* C18.  When no two requests have been in flight at the same time and     *)
(* every rejection carried an Error object, the native initializer of      *)
(* each format has been invoked at most once.                              *)
(***************************************************************************)
C18_SequentialInitOnce ==
  (/\ overlapped = {}
   /\ \A i \in InitIds :
        inits[i].promise = "rejected" => InstanceofError(inits[i].value))
  => \A fmt \in LoadedFormats : NumInits(fmt) <= 1

\* every request was WasmOnly, issued after the one before had failed; the
\* first one's initialization was rejected with an Error, the only one made
C18_Witness ==
  /\ overlapped = {}
  /\ \A r \in Reqs :
       /\ format[r] = WasmOnly
       /\ result[r] = ClipperError(CouldNotLoadMessage)
  /\ NumInits(Wasm) = 1
  /\ InstanceofError(wasmModule)

(***************************************************************************)
(* C19.  As claimed: within one initialization the first hook to fire      *)
(* decides.  Once the pre-run hook has fired, no later call of the quit    *)
(* hook (a step that leaves the initializer where it is) rejects the       *)
(* promise; once the promise is rejected, it stays rejected.               *)
(***************************************************************************)
C19_FirstSignalDecides ==
  [][\A i \in InitIds :
       /\ (PreRunFired(i) /\ inits'[i].phase = inits[i].phase)
          => inits'[i].promise # "rejected"
       /\ inits[i].promise = "rejected"
          => inits'[i].promise = "rejected"]_vars

(***************************************************************************)
(* C19, amended.  Within one initialization the first call of resolve or   *)
(* reject decides: a promise that is settled keeps its state and value,    *)
(* and the request that awaits it stores that value in the cache of the    *)
(* format and gets a wrapper of it exactly if the promise was fulfilled.   *)
(* A pre-run hook that fires after the initializer has returned resolves   *)
(* at once, so a later quit changes nothing; one that fires before only    *)
(* leaves a timer and the promise pending, so a quit before the timer      *)
(* callback rejects; a quit that fires while the promise is pending        *)
(* rejects, so a later pre-run hook changes nothing.                       *)
(***************************************************************************)
C19_FirstSettlementDecides ==
  [][/\ \/ UNCHANGED inits
        \/ \A i \in InitIds :
             /\ inits[i].promise # "pending"
                => /\ inits'[i].promise = inits[i].promise
                   /\ inits'[i].value = inits[i].value
             /\ (inits[i].promise = "pending" /\ inits'[i].promise = "fulfilled")
                => inits[i].phase = "returned"
             /\ (/\ inits[i].promise = "pending"
                 /\ inits'[i].promise = "pending"
                 /\ inits'[i].timer
                 /\ ~inits[i].timer)
                => inits[i].phase = "running"
             /\ (/\ inits[i].promise = "pending"
                 /\ inits'[i].promise = "rejected"
                 /\ inits'[i].phase = inits[i].phase)
                => inits'[i].timer = inits[i].timer
     /\ \/ UNCHANGED pc
        \/ \A r \in Reqs, fmt \in LoadedFormats :
             ResumesFrom(r, fmt)
             => /\ Cached(fmt)' = inits[CurInit(r)].value
                /\ Loaded(r, fmt)' <=> inits[CurInit(r)].promise = "fulfilled"
     ]_vars

\* the pre-run hook fired while the initializer was running and left a
\* timer; the initializer has returned, the promise has been rejected by
\* the quit hook, and the timer callback has not run yet
C19_Witness ==
  \E i \in InitIds :
    /\ inits[i].timer
    /\ RejectedByQuit(i)
    /\ Awaited(i)

(***************************************************************************)
(* C20.  A successful load yields the module the initializer returned: no  *)
(* promise is fulfilled while its initializer is still running, a promise  *)
(* is fulfilled with the module of its own initialization and never with   *)
(* undefined, and a request that resumes from a fulfilled promise stores   *)
(* that module in the cache and gets a wrapper of it.                      *)
(***************************************************************************)
C20_LoadYieldsModule ==
  [][/\ \A i \in InitIds :
          /\ inits'[i].phase = "running" => inits'[i].promise # "fulfilled"
          /\ inits'[i].promise = "fulfilled" => inits'[i].value = Module(i)
     /\ \/ UNCHANGED pc
        \/ \A r \in Reqs, fmt \in LoadedFormats :
             (ResumesFrom(r, fmt) /\ inits[CurInit(r)].promise = "fulfilled")
             => /\ Cached(fmt)' = Module(CurInit(r))
                /\ result'[r] = ClipperLibWrapper(Module(CurInit(r)), fmt)
     ]_vars

\* the pre-run hook fired while the initializer was running and left a
\* timer; the initializer has returned its module since, and the promise
\* is still pending until the timer callback runs
C20_Witness ==
  \E i \in InitIds :
    /\ inits[i].timer
    /\ inits[i].phase = "returned"
    /\ inits[i].promise = "pending"
    /\ Awaited(i)

(***************************************************************************)
(* C21.  The format tag of every returned wrapper names the initializer    *)
(* its instance came from: the instance of a wrapper tagged Wasm is a      *)
(* value the Wasm initializer produced and the instance of a wrapper       *)
(* tagged AsmJs one the AsmJs initializer produced, whether the wrapper    *)
(* was built right after the await or from the cache; and once a request   *)
(* has returned a wrapper, its instance and format stay what they are.     *)
(***************************************************************************)
C21_TagMatchesOrigin ==
  [][\A r \in Reqs :
       /\ (result[r].kind = "wrapper")'
          => /\ (result[r].format \in LoadedFormats)'
             /\ (result[r].instance # Undefined)'
             /\ ProducedBy(result[r].instance, result[r].format)'
       /\ result[r].kind = "wrapper" => result'[r] = result[r]
    ]_vars

\* wrappers of both formats are held at once, one of them built from the
\* cache by a request that ran no initializer, while a later request has
\* already gone through the loader
C21_Witness ==
  \E r1, r2, r3 \in Reqs :
    /\ r1 < r3
    /\ result[r1].kind = "wrapper" /\ result[r1].format = Wasm
    /\ result[r2].kind = "wrapper" /\ result[r2].format = AsmJs
    /\ result[r3].kind = "wrapper" /\ FromCache(r3)
    /\ ProducedBy(result[r3].instance, result[r3].format)

====
